---- MODULE Spec2Model ----
(***************************************************************************)
(* Job-progress orchestration of app.py: worker functions push progress    *)
(* events onto the process-wide progress_queue, the /progress endpoint     *)
(* pops them and forwards them to the browser.                             *)
(*                                                                         *)
(* A worker is modelled by the sequence of operations on shared state it   *)
(* still has to perform (its "plan").  A call of a function is expanded    *)
(* when it is reached: the environment then chooses the outcome of that    *)
(* function's external interactions (subprocess exit code, HTTP replies,   *)
(* file system answers) and the body of the function for that outcome      *)
(* replaces the call.                                                      *)
(***************************************************************************)
EXTENDS Integers, Sequences, FiniteSets, TLC

VARIABLES
    progress_queue,   \* queue.Queue(): FIFO of events
    task_active,      \* session['task_active']
    task,             \* number of tasks started so far (id of the newest)
    worker,           \* the worker thread: status, remaining plan, drain position
    pushed,           \* history: events the current worker pushed, in order
    calls,            \* history: function calls the current worker made
    conn,             \* the /progress connection of the browser
    current_process,  \* the global current_process: None or a process handle
    procs,            \* the external processes started so far, by handle
    stop,             \* the /stop_encode request being served, and its answers
    form,             \* history: the form of the request that started the task
    gofile_history,   \* the file GOFILE_HISTORY_FILE, and the calls that saved to it
    unique,           \* a call of get_unique_filepath: file system, target, result
    other             \* a second worker thread, started while the first one runs

\* State outside the task that the routes start.
elsewhere == <<gofile_history, unique, other>>

vars == <<progress_queue, task_active, task, worker, pushed, calls, conn,
          current_process, procs, stop, form, elsewhere>>

(* ------------------------------ bounds --------------------------------- *)
MaxLines == 1   \* output lines a subprocess prints
MaxTasks == 2   \* tasks started one after the other (SeqSpec)

(* ------------------------------ events --------------------------------- *)
\* A progress event: the dict a worker puts on the queue.  An absent key is
\* "none" (stage, log), -1 (percent) or FALSE (error, final_url); texts are
\* reduced to labels.  task and seq are history fields: who pushed it, and
\* as which of its pushes.
Event(stage, percent, log, error, final_url) ==
    [stage |-> stage, percent |-> percent, log |-> log, error |-> error,
     final_url |-> final_url, fn |-> "none", task |-> 0, seq |-> 0]

Stage(stage, percent) == Event(stage, percent, "none", FALSE, FALSE)
Log(text) == Event("none", -1, text, FALSE, FALSE)
Error == Event("none", -1, "none", TRUE, FALSE)
DONE == Log("DONE")

\* No form: the task was not started by a route that is modelled with its form.
NoForm == [exists |-> TRUE, output_filename |-> "none", pass_mode |-> "none", bitrate |-> -1]

(* --------------------------- plan operations --------------------------- *)
NoArgs == [pix |-> FALSE, s4 |-> FALSE, go |-> FALSE, codec |-> "none"]
Args(pix, s4, go, codec) == [pix |-> pix, s4 |-> s4, go |-> go, codec |-> codec]

Op(op, fn, ev, args, handler) ==
    [op |-> op, fn |-> fn, ev |-> ev, args |-> args, handler |-> handler]

Put(fn, ev) == Op("put", fn, ev, NoArgs, <<>>)          \* q.put(ev)
Drain(fn) == Op("drain", fn, DONE, NoArgs, <<>>)        \* while not q.empty(): q.get()
Call(fn, args) == Op("call", fn, DONE, args, <<>>)      \* fn(...)
Raise(fn) == Op("raise", fn, DONE, NoArgs, <<>>)        \* an exception leaves fn
Catch(fn, handler) == Op("catch", fn, DONE, NoArgs, handler)  \* except Exception: handler

\* subprocess.Popen(cmd): a process of the given kind starts; it is registered
\* when the handle is assigned to the global current_process.
Spawn(fn, kind, registered) ==
    Op("spawn", fn, DONE, [kind |-> kind, registered |-> registered], <<>>)
\* subprocess.check_output(cmd), subprocess.run(cmd): start a process and
\* return when it has ended.
Run(fn, kind) == Op("run", fn, DONE, [kind |-> kind], <<>>)
\* current_process.stdout: an attribute of whatever the global holds.
Use(fn) == Op("use", fn, DONE, NoArgs, <<>>)
\* process.wait() on the local handle, or current_process.wait() on the global.
Wait(fn, global) == Op("wait", fn, DONE, [global |-> global], <<>>)
\* "if current_process.returncode != 0: failed; return", for a process that
\* ends with the given code unless it is killed.
ExitCode(fn, code, failed) == Op("exit_code", fn, DONE, [code |-> code], failed)
\* current_process = None
Clear(fn) == Op("clear", fn, DONE, NoArgs, <<>>)

(* ---------------------- subprocess output lines ------------------------ *)
\* A line of merged stdout/stderr, by what the worker's regexps find in it:
\* "text" (nothing), "download" ([download] val%), "time" (time=hh:mm:ss.cc
\* with val seconds), "vmaf" (a VMAF score, read only when enable_vmaf is set).
Line(kind, val) == [kind |-> kind, val |-> val]

DownloadLines == {Line("text", 0), Line("download", 50)}
EncodeLines == {Line("text", 0), Line("time", 5), Line("vmaf", 0)}

RECURSIVE SeqsUpTo(_, _)
SeqsUpTo(S, n) ==
    IF n = 0 THEN {<<>>}
    ELSE LET shorter == SeqsUpTo(S, n - 1)
         IN  shorter \cup {Append(s, x) : s \in shorter, x \in S}

RECURSIVE Flatten(_)
Flatten(ss) == IF ss = <<>> THEN <<>> ELSE Head(ss) \o Flatten(Tail(ss))

Min(a, b) == IF a < b THEN a ELSE b

(* --------------------------- upload workers ---------------------------- *)
\* The stages that report a finished upload.
CompleteStages == {"Pixeldrain Upload Complete", "Pixeldrain 2 Upload Complete",
                   "4stream Upload Complete", "4stream 2 Upload Complete",
                   "Gofile Upload Complete"}

\* What open() and the Pixeldrain API do: open() raises; the request raises,
\* fails or answers without "success"; the upload succeeds.
PixeldrainOutcomes == {"open_fail", "post_fail", "ok"}

\* upload_to_pixeldrain(file_path, filename, q).  The finally clause puts DONE
\* on every path.
upload_to_pixeldrain(o) ==
    LET f == "upload_to_pixeldrain" IN
    <<Put(f, Stage("Uploading to Pixeldrain", 10))>>
    \o (CASE o = "open_fail" -> <<Put(f, Error)>>
          [] o = "post_fail" -> <<Put(f, Stage("Sending data", 50)), Put(f, Error)>>
          [] o = "ok" -> <<Put(f, Stage("Sending data", 50)),
                           Put(f, Stage("Pixeldrain Upload Complete", 100)),
                           Put(f, Event("none", -1, "Success", FALSE, TRUE))>>)
    \o <<Put(f, DONE)>>

\* upload_to_pixeldrain_alt(file_path, filename, q, api_key)
upload_to_pixeldrain_alt(o) ==
    LET f == "upload_to_pixeldrain_alt" IN
    <<Put(f, Stage("Uploading to Pixeldrain 2", 10))>>
    \o (CASE o = "open_fail" -> <<Put(f, Error)>>
          [] o = "post_fail" -> <<Put(f, Stage("Sending data", 50)), Put(f, Error)>>
          [] o = "ok" -> <<Put(f, Stage("Sending data", 50)),
                           Put(f, Stage("Pixeldrain 2 Upload Complete", 100)),
                           Put(f, Event("none", -1, "Success", FALSE, TRUE))>>)
    \o <<Put(f, DONE)>>

\* What the key and the 4stream API do: no key; the server request raises;
\* it answers without a server; the upload raises or is refused; it succeeds.
StreamOutcomes == {"no_key", "server_fail", "server_bad", "upload_fail", "ok"}

\* The body shared by upload_to_4stream and upload_to_4stream_alt, which
\* differ in the key they use and in the label of the completion stage.  The
\* two early returns put DONE themselves and then run the finally clause.
Upload4stream(f, complete, o) ==
    IF o = "no_key" THEN <<Put(f, Error), Put(f, DONE), Put(f, DONE)>>
    ELSE
    <<Put(f, Stage("Getting upload server", 10))>>
    \o (CASE o = "server_fail" -> <<Put(f, Error)>>
          [] o = "server_bad" -> <<Put(f, Error), Put(f, DONE)>>
          [] o = "upload_fail" -> <<Put(f, Stage("Got upload server", 30)), Put(f, Error)>>
          [] o = "ok" -> <<Put(f, Stage("Got upload server", 30)),
                           Put(f, Stage(complete, 100)),
                           Put(f, Event("none", -1, "Success", FALSE, TRUE))>>)
    \o <<Put(f, DONE)>>

\* upload_to_4stream(file_path, filename, q)
upload_to_4stream(o) == Upload4stream("upload_to_4stream", "4stream Upload Complete", o)

\* upload_to_4stream_alt(file_path, filename, q, api_key)
upload_to_4stream_alt(o) ==
    Upload4stream("upload_to_4stream_alt", "4stream 2 Upload Complete", o)

\* GOFILE_API_TOKEN is the environment's value or a non-empty default, so the
\* "token not configured" return of upload_to_gofile is never taken.
\* The outcomes: the server request raises; it answers without a server; the
\* upload raises; the upload is refused or its answer lacks a field; it
\* succeeds, with or without a direct link.
GofileOutcomes == {"server_fail", "server_bad", "upload_fail", "upload_bad",
                   "ok_link", "ok"}

\* upload_to_gofile(file_path, filename, q)
upload_to_gofile(o) ==
    LET f == "upload_to_gofile"
        got == Put(f, Stage("Got Gofile server", 30))
        raw == Put(f, Log("Gofile Raw Result"))
        fin == <<Put(f, Stage("Gofile Upload Complete", 100)),
                 Put(f, Event("none", -1, "Success", FALSE, TRUE))>>
    IN
    <<Put(f, Stage("Getting Gofile upload server", 10))>>
    \o (CASE o = "server_fail" -> <<Put(f, Error)>>
          [] o = "server_bad" -> <<Put(f, Error), Put(f, DONE)>>
          [] o = "upload_fail" -> <<got, Put(f, Error)>>
          [] o = "upload_bad" -> <<got, raw, Put(f, Error)>>
          [] o = "ok_link" -> <<got, raw, Put(f, Log("Captured File ID")),
                                Put(f, Log("Constructed Gofile link"))>> \o fin
          [] o = "ok" -> <<got, raw>> \o fin)
    \o <<Put(f, DONE)>>

\* The outcomes: the download request fails; the upload request raises or is
\* answered without "success"; the upload succeeds.
DirectUploadOutcomes == {"get_fail", "post_fail", "ok"}

\* upload_file_directly_to_pixeldrain(url, q)

upload_file_directly_to_pixeldrain(o) ==
    LET f == "upload_file_directly_to_pixeldrain"
        name == Put(f, Log("Identified filename"))
    IN
    <<Drain(f), Put(f, Stage("Starting direct remote upload", 0))>>
    \o (CASE o = "get_fail" -> <<Put(f, Error)>>
          [] o = "post_fail" -> <<name, Put(f, Error)>>
          [] o = "ok" -> <<name, Put(f, Event("Upload complete", 100, "none", FALSE, TRUE))>>)
    \o <<Put(f, DONE)>>

(* ---------------------- run_command_with_progress ---------------------- *)
CommandOutcomes ==
    {[path |-> "popen_fail", lines |-> <<>>]}
    \cup {[path |-> p, lines |-> l] : p \in {"exit0", "exit1"},
                                      l \in SeqsUpTo(DownloadLines, MaxLines)}

\* The events of one output line of the download tool.
DownloadLineEvents(f, stage, line) ==
    <<Put(f, Log("line"))>>
    \o (IF line.kind = "download" THEN <<Put(f, Stage(stage, line.val))>> ELSE <<>>)

\* run_command_with_progress(command, stage, q): forwards every line, raises
\* CalledProcessError on a non-zero exit code (or whatever Popen raises).
run_command_with_progress(stage, o) ==
    LET f == "run_command_with_progress" IN
    IF o.path = "popen_fail" THEN <<Raise(f)>>
    ELSE <<Spawn(f, "yt-dlp", FALSE)>>
         \o Flatten([i \in 1..Len(o.lines) |-> DownloadLineEvents(f, stage, o.lines[i])])
         \o <<Wait(f, FALSE)>>
         \o (IF o.path = "exit1" THEN <<Raise(f)>> ELSE <<>>)

(* ------------------------------ encode_file ---------------------------- *)
\* The paths of encode_file on which input_path names no file: with an
\* extension that is_media_file does not know, and with one it knows.
MissingPaths == {"missing_not_media", "missing_copy", "missing_encode"}

\* What the input file, the form values and the encoder do in one call of
\* encode_file.  codec "none" copies the file, any other codec runs the
\* encoder.  duration is get_media_duration's answer (0: unknown).
EncodeOutcomes(args) ==
    {[path |-> p, tiles_warn |-> FALSE, duration |-> 0, lines |-> <<>>] :
        p \in {"pre_exc", "not_media", "missing_not_media"}
              \cup (IF args.codec = "none" THEN {"copy_ok", "copy_fail", "missing_copy"}
                    ELSE {"bitrate_missing", "setup_fail"})}
    \cup (IF args.codec = "none" THEN {}
          ELSE {[path |-> "missing_encode", tiles_warn |-> FALSE, duration |-> 0,
                 lines |-> <<Line("text", 0)>>]}
               \cup
               {[path |-> "popen_fail", tiles_warn |-> w, duration |-> 0, lines |-> <<>>] :
                    w \in BOOLEAN}
               \cup {[path |-> p, tiles_warn |-> w, duration |-> d, lines |-> l] :
                        p \in {"exit0", "exit1"}, w \in BOOLEAN, d \in {0, 10},
                        l \in SeqsUpTo(EncodeLines, MaxLines)})

\* A percentage that ignores the duration.
EncodePercentOfElapsed(elapsed, duration) == Min(100, elapsed)

\* percent = min(100, elapsed / duration * 100), to the whole percent below
EncodePercent(elapsed, duration) == Min(100, (elapsed * 100) \div duration)

\* The events of one output line of the encoder.
EncodeLineEvents(f, duration, line) ==
    <<Put(f, Log("line"))>>
    \o (IF duration > 0 /\ line.kind = "time"
        THEN <<Put(f, Stage("Encoding", EncodePercent(line.val, duration)))>>
        ELSE <<>>)
    \o (IF duration > 0 /\ line.kind = "vmaf" THEN <<Put(f, Log("VMAF Score"))>> ELSE <<>>)

\* The finally clause of encode_file: current_process = None, then DONE
\* unless an upload flag is set.
EncodeFinally(f, args) ==
    <<Clear(f)>>
    \o (IF ~(args.pix \/ args.s4 \/ args.go) THEN <<Put(f, DONE)>> ELSE <<>>)

\* encode_file(input_path, ..., q, upload_pixeldrain, upload_4stream, upload_gofile)
encode_file(args, o) ==
    LET f == "encode_file"
        enc == <<Put(f, Stage("Encoding", 0))>>
               \o (IF o.tiles_warn THEN <<Put(f, Log("Warning: Could not parse tiles"))>>
                   ELSE <<>>)
        lines == Flatten([i \in 1..Len(o.lines) |->
                             EncodeLineEvents(f, o.duration, o.lines[i])])
        uploads == (IF args.pix THEN <<Call("upload_to_pixeldrain", NoArgs)>>
                    ELSE IF args.s4 THEN <<Call("upload_to_4stream", NoArgs)>>
                    ELSE <<>>)
                   \o (IF args.go THEN <<Call("upload_to_gofile", NoArgs)>> ELSE <<>>)
        \* duration = get_media_duration(input_path), for a name is_media_file accepts
        probe == <<Run(f, "ffprobe")>>
        \* current_process = Popen(ffmpeg_cmd); the stdout test; the read loop;
        \* current_process.wait()
        encoder == <<Spawn(f, "ffmpeg", TRUE), Use(f), Use(f)>> \o lines \o <<Wait(f, TRUE)>>
        failed == <<Put(f, Error), Clear(f)>>
        handler == <<Catch(f, <<Put(f, Error)>>)>>
    IN
    IF o.path = "pre_exc" THEN <<Raise(f)>>
    ELSE
    <<Drain(f), Put(f, Stage("Initializing encoding", 0))>>
    \o (CASE o.path = "not_media" -> <<Put(f, Error)>>
          [] o.path = "missing_not_media" -> <<Put(f, Error)>>
          [] o.path = "copy_ok" -> probe \o <<Put(f, Stage("Copied", 100))>> \o uploads
          [] o.path = "copy_fail" -> probe \o <<Put(f, Error)>>
          [] o.path = "missing_copy" -> probe \o <<Put(f, Error)>>
          [] o.path = "bitrate_missing" ->
                probe \o <<Put(f, Stage("Encoding", 0)), Put(f, Error)>>
          [] o.path = "setup_fail" ->
                probe \o <<Put(f, Stage("Encoding", 0)), Put(f, Error)>>
          [] o.path = "popen_fail" -> probe \o enc \o <<Put(f, Error)>>
          [] o.path \in {"exit1", "missing_encode"} ->
                probe \o enc \o encoder \o <<ExitCode(f, 1, failed)>> \o handler
          [] o.path = "exit0" ->
                probe \o enc \o encoder
                \o <<ExitCode(f, 0, failed), Clear(f),
                     Put(f, Event("Done", 100, "encoding complete", FALSE, FALSE))>>
                \o uploads \o handler)
    \o EncodeFinally(f, args)

(* -------------------------- download_and_convert ----------------------- *)
\* The uploads that follow the download, for the answer of os.path.exists.
ConvertUploads(args, o) ==
    (IF args.pix /\ o = "exists" THEN <<Call("upload_to_pixeldrain", NoArgs)>> ELSE <<>>)
    \o (IF args.go /\ o = "exists" THEN <<Call("upload_to_gofile", NoArgs)>> ELSE <<>>)

ConvertOutcomes(args) ==
    {"not_found"} \cup (IF args.codec = "none" THEN {"saved", "rename_fail"}
                        ELSE {"encode"})

\* The part of download_and_convert after the download: find the file, keep
\* or encode it, then the uploads.
ConvertFinish(args, o) ==
    LET f == "download_and_convert" IN
    CASE o = "not_found" -> <<Raise(f)>>
      [] o = "rename_fail" -> <<Raise(f)>>
      [] o = "saved" ->
            <<Put(f, Event("Done", -1, "File saved without encoding", FALSE, FALSE)),
              Call("download_and_convert:uploads", args)>>
      [] o = "encode" ->
            <<Call("encode_file", Args(FALSE, FALSE, FALSE, args.codec)),
              Call("download_and_convert:uploads", args)>>

\* download_and_convert(url, ..., q, is_muxed, upload_pixeldrain, upload_gofile, ...)
download_and_convert(args, o) ==
    LET f == "download_and_convert" IN
    IF o = "pre_exc" THEN <<Raise(f)>>
    ELSE
    <<Drain(f), Put(f, Stage("Initializing download", 0)),
      Call("run_command_with_progress", [stage |-> "Downloading with yt-dlp"]),
      Put(f, Stage("Download Complete", 100)),
      Call("download_and_convert:finish", args),
      Catch(f, <<Put(f, Error)>>)>>
    \o (IF ~(args.pix \/ args.go) THEN <<Put(f, DONE)>> ELSE <<>>)

(* --------------------------- manual_merge_worker ----------------------- *)
\* The uploads of manual_merge_worker, for the answer of os.path.exists.
MergeUploads(args, o) ==
    (IF args.pix /\ o = "exists" THEN <<Call("upload_to_pixeldrain", NoArgs)>> ELSE <<>>)
    \o (IF args.s4 /\ o = "exists" THEN <<Call("upload_to_4stream", NoArgs)>> ELSE <<>>)
    \o (IF args.go /\ o = "exists" THEN <<Call("upload_to_gofile", NoArgs)>> ELSE <<>>)

\* manual_merge_worker(url, video_id, audio_id, filename, q, upload_pixeldrain,
\* upload_4stream, upload_gofile)
manual_merge_worker(args, o) ==
    LET f == "manual_merge_worker" IN
    IF o = "pre_exc" THEN <<Raise(f)>>
    ELSE
    <<Drain(f), Put(f, Stage("Initializing manual download", 0)),
      Call("run_command_with_progress", [stage |-> "Downloading & Merging with yt-dlp"]),
      Put(f, Stage("Download Complete!", 100)),
      Call("manual_merge_worker:uploads", args),
      Catch(f, <<Put(f, Error)>>)>>
    \o (IF ~(args.pix \/ args.s4 \/ args.go) THEN <<Put(f, DONE)>> ELSE <<>>)

(* ---------------------- ffmpeg_merge_with_progress --------------------- *)
\* The progress lines of the copy merge: "out_time_ms" with a number, with
\* something that int() rejects ("out_time_bad"), and any other line.
MergeLines == {Line("text", 0), Line("out_time_ms", 0), Line("out_time_bad", 0)}

\* What the copy merge does: the list file cannot be written or the process
\* not started (pre_exc); exit 0 with the output file (copy_ok); a non-zero
\* exit with a part of the output left behind (copy_partial) or without an
\* output file (copy_fail); os.remove of the list file raises (remove_exc).
\* The re-encode reads the list file that run() has removed: it fails.
MergeOutcomes ==
    {[path |-> "pre_exc", lines |-> <<>>]}
    \cup {[path |-> p, lines |-> l] :
            p \in {"copy_ok", "copy_partial", "copy_fail", "remove_exc"},
            l \in SeqsUpTo(MergeLines, MaxLines)}

\* The outcomes after which output_path names a file.
MergeProduced == {"copy_ok", "copy_partial"}

\* ffmpeg_merge_with_progress(files, output_path)
ffmpeg_merge_with_progress(o) ==
    LET f == "ffmpeg_merge_with_progress"
        lines == Flatten([i \in 1..Len(o.lines) |->
                    IF o.lines[i].kind = "out_time_ms"
                    THEN <<Put(f, Stage("Merging", -1))>> ELSE <<>>])
        run == <<Spawn(f, "ffmpeg", FALSE)>> \o lines \o <<Wait(f, FALSE)>>
    IN  IF o.path = "pre_exc" THEN <<Raise(f)>>
        ELSE IF o.path = "remove_exc" THEN run \o <<Raise(f)>>
        ELSE IF o.path = "copy_ok" THEN run \o <<Put(f, DONE)>>
        ELSE run \o <<Put(f, Stage("Re-encoding for compatibility", -1)),
                      Run(f, "ffmpeg"), Put(f, DONE)>>

(* ------------------------- download_file_directly ---------------------- *)
MaxRedirects == 1   \* redirects followed before the final response
MaxChunks == 1      \* chunks of the response body

\* len(chunk) of a chunk of the decoded body, and the Content-Length header
\* (0: absent).  The header counts the bytes on the wire, so the decoded
\* body can be longer than it says.
ChunkSizes == {1, 3}
ContentLengths == {0, 2}

DirectOutcomes ==
    {[auth |-> a, gofile |-> g] :
        a \in BOOLEAN, g \in {"other_host", "token", "no_token", "token_fail"}}

RequestOutcomes ==
    {[path |-> p, hops |-> h, total |-> 0, chunks |-> <<>>] :
        p \in {"bad_url", "connect_fail", "http_error", "landing"},
        h \in SeqsUpTo({"redirect", "blocked"}, MaxRedirects)}
    \cup {[path |-> p, hops |-> h, total |-> t, chunks |-> c] :
            p \in {"ok", "write_fail"},
            h \in SeqsUpTo({"redirect", "blocked"}, MaxRedirects),
            t \in ContentLengths, c \in SeqsUpTo(ChunkSizes, MaxChunks)}

RECURSIVE Sum(_)
Sum(s) == IF s = <<>> THEN 0 ELSE Head(s) + Sum(Tail(s))

\* percent = downloaded_size / total_size * 100, after the i-th chunk
ChunkPercent(chunks, i, total) == (Sum(SubSeq(chunks, 1, i)) * 100) \div total

\* The uploads that follow a direct download; final_path and safe_name are
\* set only when the response body was read.
DirectUploads(args, named) ==
    (IF args.pix /\ named THEN <<Call("upload_to_pixeldrain", NoArgs)>> ELSE <<>>)
    \o (IF args.go /\ named THEN <<Call("upload_to_gofile", NoArgs)>> ELSE <<>>)

\* The redirect loop, the download of the body and what follows it in the
\* try block of download_file_directly.  A response with a status of 400 or
\* more is falsy, so "if response:" skips raise_for_status and the download:
\* requests.exceptions.HTTPError is never raised and the credential retries
\* of the except clause never run.
DirectRequest(args, o) ==
    LET f == "download_file_directly"
        hop(h) == <<Put(f, Log("Connecting"))>>
                  \o (IF h = "blocked" THEN <<Put(f, Log("Block detected"))>> ELSE <<>>)
        chunk(i) == IF o.total > 0
                    THEN <<Put(f, Stage("Downloading", ChunkPercent(o.chunks, i, o.total)))>>
                    ELSE <<>>
        body == Flatten([i \in 1..Len(o.chunks) |-> chunk(i)])
        complete == Put(f, Stage("Download complete", 100))
    IN
    Flatten([i \in 1..Len(o.hops) |-> hop(o.hops[i])])
    \o (CASE o.path = "bad_url" -> <<Raise(f)>>
          [] o.path = "connect_fail" -> <<Put(f, Log("Connecting")), Raise(f)>>
          [] o.path = "http_error" ->
                <<Put(f, Log("Connecting")), complete>> \o DirectUploads(args, FALSE)
          [] o.path = "landing" -> <<Put(f, Log("Connecting")), Raise(f)>>
          [] o.path = "write_fail" -> <<Put(f, Log("Connecting"))>> \o body \o <<Raise(f)>>
          [] o.path = "ok" ->
                <<Put(f, Log("Connecting"))>> \o body \o <<complete>>
                \o DirectUploads(args, TRUE))

\* download_file_directly(url, q, upload_pixeldrain_direct, upload_gofile_direct,
\* username, password, referer)
download_file_directly(args, o) ==
    LET f == "download_file_directly" IN
    <<Drain(f), Put(f, Stage("Starting direct download", 0))>>
    \o (IF o.auth THEN <<Put(f, Log("Using authentication"))>> ELSE <<>>)
    \o (CASE o.gofile = "other_host" -> <<>>
          [] o.gofile = "no_token" -> <<Put(f, Log("Fetching Gofile security tokens"))>>
          [] o.gofile = "token" -> <<Put(f, Log("Fetching Gofile security tokens")),
                                     Put(f, Log("Got Gofile guest token"))>>
          [] o.gofile = "token_fail" -> <<Put(f, Log("Fetching Gofile security tokens")),
                                          Put(f, Log("Failed to get Gofile guest token"))>>)
    \o <<Call("download_file_directly:request", args), Catch(f, <<Put(f, Error)>>)>>
    \o (IF ~(args.pix \/ args.go) THEN <<Put(f, DONE)>> ELSE <<>>)

(* ----------------------------- batch workers --------------------------- *)
MaxFiles == 2   \* eligible files of a batch

\* The function a batch worker calls for each file.
PerFile(fn) == IF fn = "batch_encode_worker" THEN "encode_file" ELSE "upload_to_pixeldrain"

\* batch_encode_worker(): for each eligible file the status event (file_info
\* and batch_encode_status, keys that an event of the model does not keep),
\* a log line and a stage, then encode_file with the upload_pixeldrain flag
\* of the request; an exception of encode_file becomes an error event.
batch_encode_worker(args) ==
    LET f == "batch_encode_worker" IN
    Flatten([idx \in 1..MaxFiles |->
        <<Put(f, Event("none", -1, "none", FALSE, FALSE)),
          Put(f, Log("BATCH")),
          Put(f, Stage("Batch", -1)),
          Call("encode_file", Args(args.pix, FALSE, FALSE, args.codec)),
          Catch(f, <<Put(f, Error)>>)>>])

\* batch_upload_worker(): for each existing file a log line, then
\* upload_to_pixeldrain; an exception of it becomes an error event.
batch_upload_worker ==
    LET f == "batch_upload_worker" IN
    Flatten([idx \in 1..MaxFiles |->
        <<Put(f, Log("Uploading")),
          Call("upload_to_pixeldrain", NoArgs),
          Catch(f, <<Put(f, Error)>>)>>])

(* ------------------------- calls and their bodies ---------------------- *)
\* The outcomes the environment can choose when fn is called with args.
Outcomes(fn, args) ==
    CASE fn = "upload_to_pixeldrain" -> PixeldrainOutcomes
      [] fn = "upload_to_pixeldrain_alt" -> PixeldrainOutcomes
      [] fn = "upload_to_4stream" -> StreamOutcomes
      [] fn = "upload_to_4stream_alt" -> StreamOutcomes
      [] fn = "upload_to_gofile" -> GofileOutcomes
      [] fn = "upload_file_directly_to_pixeldrain" -> DirectUploadOutcomes
      [] fn = "run_command_with_progress" -> CommandOutcomes
      [] fn = "encode_file" -> EncodeOutcomes(args)
      [] fn = "download_and_convert" -> {"pre_exc", "run"}
      [] fn = "download_and_convert:finish" -> ConvertOutcomes(args)
      [] fn = "download_and_convert:uploads" -> {"exists", "missing"}
      [] fn = "manual_merge_worker" -> {"pre_exc", "run"}
      [] fn = "manual_merge_worker:uploads" -> {"exists", "missing"}
      [] fn = "download_file_directly" -> DirectOutcomes
      [] fn = "ffmpeg_merge_with_progress" -> MergeOutcomes
      [] fn = "batch_encode_worker" -> {"run"}
      [] fn = "batch_upload_worker" -> {"run"}
      [] fn = "download_file_directly:request" -> RequestOutcomes

\* The operations fn performs for outcome o.
Body(fn, args, o) ==
    CASE fn = "upload_to_pixeldrain" -> upload_to_pixeldrain(o)
      [] fn = "upload_to_pixeldrain_alt" -> upload_to_pixeldrain_alt(o)
      [] fn = "upload_to_4stream" -> upload_to_4stream(o)
      [] fn = "upload_to_4stream_alt" -> upload_to_4stream_alt(o)
      [] fn = "upload_to_gofile" -> upload_to_gofile(o)
      [] fn = "upload_file_directly_to_pixeldrain" -> upload_file_directly_to_pixeldrain(o)
      [] fn = "run_command_with_progress" -> run_command_with_progress(args.stage, o)
      [] fn = "encode_file" -> encode_file(args, o)
      [] fn = "download_and_convert" -> download_and_convert(args, o)
      [] fn = "download_and_convert:finish" -> ConvertFinish(args, o)
      [] fn = "download_and_convert:uploads" -> ConvertUploads(args, o)
      [] fn = "manual_merge_worker" -> manual_merge_worker(args, o)
      [] fn = "manual_merge_worker:uploads" -> MergeUploads(args, o)
      [] fn = "download_file_directly" -> download_file_directly(args, o)
      [] fn = "ffmpeg_merge_with_progress" -> ffmpeg_merge_with_progress(o)
      [] fn = "batch_encode_worker" -> batch_encode_worker(args)
      [] fn = "batch_upload_worker" -> batch_upload_worker
      [] fn = "download_file_directly:request" -> DirectRequest(args, o)

\* The name under which an outcome is kept in the call history.
PathOf(fn, o) ==
    IF fn \in {"run_command_with_progress", "encode_file", "download_file_directly:request",
               "ffmpeg_merge_with_progress"}
    THEN o.path
    ELSE IF fn = "download_file_directly" THEN "run" ELSE o

(* --------------------------- the worker thread ------------------------- *)
\* Leaving a try block normally skips its except clause.
RECURSIVE SkipCatch(_)
SkipCatch(plan) ==
    IF plan # <<>> /\ Head(plan).op = "catch" THEN SkipCatch(Tail(plan)) ELSE plan

\* The thread after a step that leaves plan to do; an empty plan is the
\* return of the thread's target.
Continue(plan) ==
    LET rest == SkipCatch(plan)
    IN  [status |-> IF rest = <<>> THEN "returned" ELSE "running",
         plan |-> rest, getting |-> FALSE]

\* An exception skips the rest of the try block it is raised in and runs the
\* handler of the innermost enclosing except clause; with none it leaves the
\* thread's target.
RECURSIVE Unwind(_)
Unwind(plan) ==
    IF plan = <<>> THEN [status |-> "raised", plan |-> <<>>, getting |-> FALSE]
    ELSE IF Head(plan).op = "catch" THEN Continue(Head(plan).handler \o Tail(plan))
    ELSE Unwind(Tail(plan))

\* "return" inside a try block: the rest of the block and its except clause
\* are skipped, the finally clause is next.
RECURSIVE AfterTry(_)
AfterTry(plan) ==
    IF plan = <<>> THEN <<>>
    ELSE IF Head(plan).op = "catch" THEN Tail(plan)
    ELSE AfterTry(Tail(plan))

\* The value of current_process when no process is registered.
None == 0

Running == worker.status = "running"
Next_op == Head(worker.plan)

\* The functions the routes hand to start_task, with the upload flags and the
\* codec of the form.
Targets ==
    {[fn |-> "encode_file", args |-> Args(p, s, g, c)] :
        p \in BOOLEAN, s \in BOOLEAN, g \in BOOLEAN, c \in {"none", "h265"}}
    \cup {[fn |-> "download_and_convert", args |-> Args(p, FALSE, g, c)] :
        p \in BOOLEAN, g \in BOOLEAN, c \in {"none", "h265"}}
    \cup {[fn |-> "download_file_directly", args |-> Args(p, FALSE, g, "none")] :
        p \in BOOLEAN, g \in BOOLEAN}
    \cup {[fn |-> "manual_merge_worker", args |-> Args(p, s, g, "none")] :
        p \in BOOLEAN, s \in BOOLEAN, g \in BOOLEAN}
    \cup {[fn |-> f, args |-> NoArgs] :
        f \in {"upload_file_directly_to_pixeldrain", "upload_to_pixeldrain",
               "upload_to_4stream", "upload_to_pixeldrain_alt",
               "upload_to_4stream_alt", "upload_to_gofile"}}

\* session['task_active'] = True
SessionKept(flag) == flag

SessionSet(flag) == TRUE

\* start_task(target, args): marks the session and starts the thread.
start_task(target) ==
    /\ task_active' = SessionSet(task_active)
    /\ task' = task + 1
    /\ worker' = [status |-> "running", plan |-> <<Call(target.fn, target.args)>>,
                  getting |-> FALSE]
    /\ pushed' = <<>>
    /\ calls' = <<>>
    /\ UNCHANGED <<progress_queue, conn, current_process, procs, stop>>

\* The worker enters a function; the environment fixes what the function
\* will meet.
\* The worker enters the function of its next operation, which meets outcome o.
Enter(o) ==
    /\ worker' = Continue(Body(Next_op.fn, Next_op.args, o) \o Tail(worker.plan))
    /\ calls' = Append(calls, [fn |-> Next_op.fn, args |-> Next_op.args,
                               path |-> PathOf(Next_op.fn, o)])
    /\ UNCHANGED <<progress_queue, task_active, task, pushed, conn>>
    /\ UNCHANGED <<current_process, procs, stop, form, elsewhere>>

WorkerCall ==
    /\ Running /\ Next_op.op = "call"
    /\ \E o \in Outcomes(Next_op.fn, Next_op.args) : Enter(o)

\* A queue that hands out the newest event first.
QueuePutFront(q, ev) == <<ev>> \o q

\* q.put(event): appended at the tail of the queue, never blocks.
QueuePut(q, ev) == Append(q, ev)

\* q.get(): the event at the head of the queue.
QueueHead(q) == Head(q)

WorkerPut ==
    /\ Running /\ Next_op.op = "put"
    /\ LET ev == [Next_op.ev EXCEPT !.fn = Next_op.fn, !.task = task,
                                    !.seq = Len(pushed) + 1]
       IN  /\ progress_queue' = QueuePut(progress_queue, ev)
           /\ pushed' = Append(pushed, ev)
    /\ worker' = Continue(Tail(worker.plan))
    /\ UNCHANGED <<task_active, task, calls, conn>>
    /\ UNCHANGED <<current_process, procs, stop, form, elsewhere>>

\* "while not q.empty()": leaves the loop on an empty queue, else goes on to
\* q.get().
WorkerDrainTest ==
    /\ Running /\ Next_op.op = "drain" /\ ~worker.getting
    /\ worker' = IF progress_queue = <<>> THEN Continue(Tail(worker.plan))
                 ELSE [worker EXCEPT !.getting = TRUE]
    /\ UNCHANGED <<progress_queue, task_active, task, pushed, calls, conn>>
    /\ UNCHANGED <<current_process, procs, stop, form, elsewhere>>

\* "q.get()" of the drain loop: blocks while the queue is empty.
WorkerDrainGet ==
    /\ Running /\ Next_op.op = "drain" /\ worker.getting
    /\ progress_queue # <<>>
    /\ progress_queue' = Tail(progress_queue)
    /\ worker' = [worker EXCEPT !.getting = FALSE]
    /\ UNCHANGED <<task_active, task, pushed, calls, conn>>
    /\ UNCHANGED <<current_process, procs, stop, form, elsewhere>>

\* The worker's own handle of the process it started last.
LastProcess ==
    LET own == {h \in DOMAIN procs : procs[h].task = task}
    IN  IF own = {} THEN None ELSE CHOOSE h \in own : \A g \in own : g <= h

\* The process has ended.
Ended(ps, h) ==
    IF h \in DOMAIN ps /\ ps[h].state = "running"
    THEN [ps EXCEPT ![h].state = "exited"] ELSE ps

\* Popen returns: the process runs, and the global holds its handle when the
\* worker assigns it there.
WorkerSpawn ==
    /\ Running /\ Next_op.op = "spawn"
    /\ procs' = Append(procs, [kind |-> Next_op.args.kind, state |-> "running",
                            fn |-> Next_op.fn, task |-> task])
    /\ current_process' = IF Next_op.args.registered THEN Len(procs) + 1
                          ELSE current_process
    /\ worker' = Continue(Tail(worker.plan))
    /\ UNCHANGED <<progress_queue, task_active, task, pushed, calls, conn, stop, form, elsewhere>>

\* A process that is started and awaited in one call.
WorkerRun ==
    /\ Running /\ Next_op.op = "run"
    /\ procs' = Append(procs, [kind |-> Next_op.args.kind, state |-> "exited",
                            fn |-> Next_op.fn, task |-> task])
    /\ worker' = Continue(Tail(worker.plan))
    /\ UNCHANGED <<progress_queue, task_active, task, pushed, calls, conn,
                   current_process, stop, form, elsewhere>>

\* An attribute of current_process is read: AttributeError when it is None.
WorkerUse ==
    /\ Running /\ Next_op.op = "use"
    /\ worker' = IF current_process = None THEN Unwind(Tail(worker.plan))
                 ELSE Continue(Tail(worker.plan))
    /\ UNCHANGED <<progress_queue, task_active, task, pushed, calls, conn,
                   current_process, procs, stop, form, elsewhere>>

\* wait(): returns when the process has ended (by itself, unless it was
\* killed).  The worker comes to it at the end of the output of the process
\* it started, which has ended by then.  On the global it waits for the
\* process the global holds, and raises AttributeError when that is None.
WorkerWait ==
    /\ Running /\ Next_op.op = "wait"
    /\ IF Next_op.args.global /\ current_process = None
       THEN /\ worker' = Unwind(Tail(worker.plan))
            /\ procs' = Ended(procs, LastProcess)
       ELSE /\ worker' = Continue(Tail(worker.plan))
            /\ procs' = IF Next_op.args.global
                        THEN Ended(Ended(procs, LastProcess), current_process)
                        ELSE Ended(procs, LastProcess)
    /\ UNCHANGED <<progress_queue, task_active, task, pushed, calls, conn,
                   current_process, stop, form, elsewhere>>

\* current_process.returncode != 0: the failure branch puts its events and
\* returns; AttributeError when the global is None.
WorkerExitCode ==
    /\ Running /\ Next_op.op = "exit_code"
    /\ worker' =
          IF current_process = None THEN Unwind(Tail(worker.plan))
          ELSE IF Next_op.args.code # 0 \/ procs[current_process].state = "killed"
               THEN Continue(Next_op.handler \o AfterTry(Tail(worker.plan)))
               ELSE Continue(Tail(worker.plan))
    /\ UNCHANGED <<progress_queue, task_active, task, pushed, calls, conn,
                   current_process, procs, stop, form, elsewhere>>

\* A variable that keeps what it held.
ClearedKept(cp) == cp

\* The value assigned by "current_process = None".
Cleared(cp) == None

WorkerClear ==
    /\ Running /\ Next_op.op = "clear"
    /\ current_process' = Cleared(current_process)
    /\ worker' = Continue(Tail(worker.plan))
    /\ UNCHANGED <<progress_queue, task_active, task, pushed, calls, conn,
                   procs, stop, form, elsewhere>>

WorkerRaise ==
    /\ Running /\ Next_op.op = "raise"
    /\ worker' = Unwind(Tail(worker.plan))
    /\ UNCHANGED <<progress_queue, task_active, task, pushed, calls, conn>>
    /\ UNCHANGED <<current_process, procs, stop, form, elsewhere>>

(* ----------------------------- /progress ------------------------------- *)
\* A test that ends the stream on DONE only.
IsLastMessageDoneOnly(msg) == msg.log = "DONE"

\* The test that ends generate(): msg.get("log") == "DONE" or "error" in msg
IsLastMessage(msg) == msg.log = "DONE" \/ msg.error

\* The page of a started task opens /progress: new EventSource("/progress"),
\* once for a task and after closing the connection it had.
Connect ==
    /\ conn.state # "open"
    /\ conn.task < task
    /\ conn' = [state |-> "open", task |-> task, delivered |-> <<>>]
    /\ UNCHANGED <<progress_queue, task_active, task, worker, pushed, calls>>
    /\ UNCHANGED <<current_process, procs, stop, form, elsewhere>>

\* One round of generate(): progress_queue.get(timeout=30) returns the head
\* of the queue, the message is yielded, and a last message ends the loop.
StreamGet ==
    /\ conn.state = "open"
    /\ progress_queue # <<>>
    /\ LET msg == QueueHead(progress_queue)
       IN  conn' = [conn EXCEPT !.delivered = Append(@, msg),
                                !.state = IF IsLastMessage(msg) THEN "closed" ELSE "open"]
    /\ progress_queue' = Tail(progress_queue)
    /\ UNCHANGED <<task_active, task, worker, pushed, calls>>
    /\ UNCHANGED <<current_process, procs, stop, form, elsewhere>>

\* queue.Empty: nothing arrived for 30 seconds.
StreamTimeout ==
    /\ conn.state = "open"
    /\ progress_queue = <<>>
    /\ conn' = [conn EXCEPT !.state = "closed"]
    /\ UNCHANGED <<progress_queue, task_active, task, worker, pushed, calls>>
    /\ UNCHANGED <<current_process, procs, stop, form, elsewhere>>

\* GeneratorExit: the client went away while the generator was suspended at
\* its yield.
StreamDisconnect ==
    /\ conn.state = "open"
    /\ conn.delivered # <<>>
    /\ conn' = [conn EXCEPT !.state = "closed"]
    /\ UNCHANGED <<progress_queue, task_active, task, worker, pushed, calls>>
    /\ UNCHANGED <<current_process, procs, stop, form, elsewhere>>

(* ---------------------------- /stop_encode ----------------------------- *)
MaxStops == 2   \* stop requests

\* A test that takes every value for a process.
HasProcessAlways(cp) == TRUE

\* The truth value of current_process in "if current_process and ...".
HasProcess(cp) == cp # None

\* process.poll() is None, for a handle.
IsRunning(cp) == cp \in DOMAIN procs /\ procs[cp].state = "running"

\* The handler returns (or an exception leaves it) with the given status
\* code.  The answer keeps, as history, what the global held when the
\* request arrived, whether that process was running then, and what the
\* global holds and how that process is when the handler is left.
Answer(code, token, live, after) ==
    [pc |-> "idle", token |-> None, live |-> FALSE,
     answers |-> Append(stop.answers,
                        [code |-> code, token |-> token, live |-> live,
                         token_after |-> after,
                         state_after |-> IF token = None THEN "none"
                                         ELSE procs[token].state])]

\* stop_encode() (also reached through stop_process): the first operand of
\* its condition.  Without a process the else branch answers 400.
StopCall ==
    /\ stop.pc = "idle"
    /\ Len(stop.answers) < MaxStops
    /\ stop' = IF HasProcess(current_process)
               THEN [stop EXCEPT !.pc = "poll", !.token = current_process,
                                 !.live = IsRunning(current_process)]
               ELSE Answer(400, None, FALSE, None)
    /\ UNCHANGED <<progress_queue, task_active, task, worker, pushed, calls, conn,
                   current_process, procs, form, elsewhere>>

\* current_process.poll() is None: the global is read again.  AttributeError
\* leaves the handler (500) when it is None by now; a process that has ended
\* gets the else branch.
StopPoll ==
    /\ stop.pc = "poll"
    /\ stop' = IF current_process = None
               THEN Answer(500, stop.token, stop.live, None)
               ELSE IF IsRunning(current_process)
                    THEN [stop EXCEPT !.pc = "kill"]
                    ELSE Answer(400, stop.token, stop.live, current_process)
    /\ UNCHANGED <<progress_queue, task_active, task, worker, pushed, calls, conn,
                   current_process, procs, form, elsewhere>>

\* current_process.kill(): SIGKILL; the except clause takes the
\* AttributeError of a global that is None by now.
StopKill ==
    /\ stop.pc = "kill"
    /\ IF current_process = None
       THEN /\ stop' = [stop EXCEPT !.pc = "finally"]
            /\ UNCHANGED procs
       ELSE /\ stop' = [stop EXCEPT !.pc = "wait"]
            /\ procs' = [procs EXCEPT ![current_process].state =
                                         IF @ = "running" THEN "killed" ELSE @]
    /\ UNCHANGED <<progress_queue, task_active, task, worker, pushed, calls, conn,
                   current_process, form, elsewhere>>

\* current_process.wait(timeout=2): returns, or raises into the except clause.
StopWait ==
    /\ stop.pc = "wait"
    /\ stop' = [stop EXCEPT !.pc = "finally"]
    /\ UNCHANGED <<progress_queue, task_active, task, worker, pushed, calls, conn,
                   current_process, procs, form, elsewhere>>

\* finally: current_process = None; session.pop('task_active'); then the
\* success answer.
StopFinally ==
    /\ stop.pc = "finally"
    /\ current_process' = None
    /\ task_active' = FALSE
    /\ stop' = Answer(200, stop.token, stop.live, None)
    /\ UNCHANGED <<progress_queue, task, worker, pushed, calls, conn, procs, form, elsewhere>>

\* logout(): session.clear() drops every key of the session, the task flag
\* with them; no login is needed to start or to stop an encode afterwards.
logout ==
    /\ task_active' = FALSE
    /\ UNCHANGED <<progress_queue, task, worker, pushed, calls, conn, current_process,
                   procs, stop, form, elsewhere>>

(* ----------------------- save_to_gofile_history ------------------------ *)
HistoryCap == 100   \* history[:100]
MaxSaves == 103     \* calls of save_to_gofile_history that write the file

\* The list with the entry as its last element.
InsertLast(entry, history) == Append(history, entry)

\* history.insert(0, entry)
InsertFirst(entry, history) == <<entry>> \o history

\* history[:n]
Prefix(history, n) == SubSeq(history, 1, Min(n, Len(history)))

\* any(item.get("link") == download_page for item in history)
HasLink(history, link) == \E i \in 1..Len(history) : history[i].link = link

\* The download pages a call is tried with: one never saved before, the one
\* of the newest and of the oldest entry of the file, the one of the entry
\* that was cut off last, and None (0).
LinkChoices ==
    {gofile_history.fresh + 1, 0}
    \cup (IF gofile_history.entries = <<>> THEN {}
          ELSE {gofile_history.entries[1].link,
                gofile_history.entries[Len(gofile_history.entries)].link})
    \cup (IF gofile_history.dropped = 0 THEN {} ELSE {gofile_history.dropped})

\* save_to_gofile_history(filename, download_page, size, file_id): the file is
\* read when it exists (an empty file is no JSON: the except clause ends the
\* call), the entry is built (None.split raises when neither a file id nor a
\* download page is given), and the file is rewritten only for a new link.
\* createTime is the time of the call: the clock, which ticks between two
\* calls that write.
save_to_gofile_history(download_page, file_id) ==
    LET h == gofile_history
        now == h.clock + 1
        raised == h.state = "empty" \/ (download_page = 0 /\ ~file_id)
        present == HasLink(h.entries, download_page)
        entry == [link |-> download_page, createTime |-> now]
        longer == InsertFirst(entry, h.entries)
        written == Prefix(longer, HistoryCap)
        changed == ~raised /\ ~present
    IN  gofile_history' =
            [state |-> IF changed THEN "json" ELSE h.state,
             entries |-> IF changed THEN written ELSE h.entries,
             clock |-> IF changed THEN now ELSE h.clock,
             fresh |-> IF changed /\ download_page > h.fresh THEN download_page
                       ELSE h.fresh,
             dropped |-> IF changed /\ Len(longer) > HistoryCap
                         THEN longer[Len(longer)].link ELSE h.dropped,
             last |-> [link |-> download_page, present |-> ~raised /\ present,
                       changed |-> (IF changed THEN written ELSE h.entries) # h.entries
                                   \/ (changed /\ h.state # "json")]]

Save ==
    /\ gofile_history.clock < MaxSaves
    /\ \E download_page \in LinkChoices, file_id \in BOOLEAN :
          save_to_gofile_history(download_page, file_id)
    /\ UNCHANGED <<progress_queue, task_active, task, worker, pushed, calls, conn,
                   current_process, procs, stop, form, unique, other>>

(* --------------------------- specifications ---------------------------- *)
\* No history file yet, and no call that saved to it.
NoHistory ==
    [state |-> "absent", entries |-> <<>>, clock |-> 0, fresh |-> 0, dropped |-> 0,
     last |-> [link |-> 0, present |-> FALSE, changed |-> FALSE]]

\* No call of get_unique_filepath yet.
NoTarget == [directory |-> <<>>, base |-> <<>>, ext |-> <<>>]

NoUnique == [existing |-> {}, target |-> NoTarget, result |-> <<>>]

\* No second thread: the thread that is not scheduled, with its task, the
\* events it pushed and the calls it made.
NoWorker ==
    [worker |-> [status |-> "idle", plan |-> <<>>, getting |-> FALSE],
     task |-> 0, pushed |-> <<>>, calls |-> <<>>]

\* No task has been started.
InitTask ==
    /\ progress_queue = <<>>
    /\ task_active = FALSE
    /\ task = 0
    /\ worker = [status |-> "idle", plan |-> <<>>, getting |-> FALSE]
    /\ pushed = <<>>
    /\ calls = <<>>
    /\ conn = [state |-> "idle", task |-> 0, delivered |-> <<>>]
    /\ current_process = None
    /\ procs = <<>>
    /\ stop = [pc |-> "idle", token |-> None, live |-> FALSE, answers |-> <<>>]
    /\ form = NoForm

Init ==
    /\ gofile_history = NoHistory
    /\ unique = NoUnique
    /\ other = NoWorker
    /\ InitTask

\* One task: a route starts one worker.
StartTask ==
    /\ task = 0
    /\ \E target \in Targets : start_task(target)
    /\ UNCHANGED <<form, elsewhere>>

Next ==
    \/ StartTask
    \/ WorkerCall
    \/ WorkerPut
    \/ WorkerDrainTest
    \/ WorkerDrainGet
    \/ WorkerSpawn
    \/ WorkerRun
    \/ WorkerUse
    \/ WorkerWait
    \/ WorkerExitCode
    \/ WorkerClear
    \/ WorkerRaise
    \/ Connect
    \/ StreamGet
    \/ StreamTimeout
    \/ StreamDisconnect

\* One task of any kind and the connection of its page.
Spec == Init /\ [][Next]_vars

\* Tasks started one after the other, each once the worker of the previous
\* one has ended: the routes that upload a file that is already there.
UploadTargets ==
    {t \in Targets : t.fn \in {"upload_file_directly_to_pixeldrain", "upload_to_pixeldrain",
                               "upload_to_4stream", "upload_to_pixeldrain_alt",
                               "upload_to_4stream_alt", "upload_to_gofile"}}

StartUpload ==
    /\ task < MaxTasks
    /\ worker.status # "running"
    /\ \E target \in UploadTargets : start_task(target)
    /\ UNCHANGED <<form, elsewhere>>

NextSeq ==
    \/ StartUpload
    \/ WorkerCall
    \/ WorkerPut
    \/ WorkerDrainTest
    \/ WorkerDrainGet
    \/ Connect
    \/ StreamGet
    \/ StreamTimeout
    \/ StreamDisconnect

SeqSpec == Init /\ [][NextSeq]_vars

\* One task that uploads or encodes a file that is already there, and the
\* connection of its page.  (The queue is empty when its drain loop starts.)
StreamTargets == UploadTargets \cup {t \in Targets : t.fn = "encode_file"}

StartStream ==
    /\ task = 0
    /\ \E target \in StreamTargets : start_task(target)
    /\ UNCHANGED <<form, elsewhere>>

NextStream ==
    \/ StartStream
    \/ WorkerCall
    \/ WorkerPut
    \/ WorkerDrainTest
    \/ WorkerSpawn
    \/ WorkerRun
    \/ WorkerUse
    \/ WorkerWait
    \/ WorkerExitCode
    \/ WorkerClear
    \/ WorkerRaise
    \/ Connect
    \/ StreamGet
    \/ StreamTimeout
    \/ StreamDisconnect

StreamSpec == Init /\ [][NextStream]_vars

\* progress_queue.get(timeout=30) returns: with an event, or after 30 seconds
\* without one.
StreamStep == StreamGet \/ StreamTimeout

FairStreamSpec == StreamSpec /\ WF_vars(StreamStep)

\* Tasks that copy a file with encode_file, one after the other, and the
\* connection of their page: what a task leaves on the queue is there when
\* the drain loop of the next one starts.
DrainTargets == {t \in Targets : t.fn = "encode_file" /\ t.args = NoArgs}

StartDrainTask ==
    /\ task < MaxTasks
    /\ worker.status # "running"
    /\ \E target \in DrainTargets : start_task(target)
    /\ UNCHANGED <<form, elsewhere>>

\* A step of the worker thread; the thread is scheduled as long as it can
\* take one.
DrainWorkerStep ==
    \/ WorkerCall
    \/ WorkerPut
    \/ WorkerDrainTest
    \/ WorkerDrainGet
    \/ WorkerRun
    \/ WorkerClear
    \/ WorkerRaise

NextDrain ==
    \/ StartDrainTask
    \/ WorkerCall
    \/ WorkerPut
    \/ WorkerDrainTest
    \/ WorkerDrainGet
    \/ WorkerRun
    \/ WorkerClear
    \/ WorkerRaise
    \/ Connect
    \/ StreamGet
    \/ StreamTimeout
    \/ StreamDisconnect

DrainSpec == Init /\ [][NextDrain]_vars

FairDrainSpec == DrainSpec /\ WF_vars(DrainWorkerStep)

\* One encode_file task and the stop requests of its page.
StopTargets ==
    {t \in Targets : t.fn = "encode_file" /\ ~t.args.pix /\ ~t.args.s4}

StartEncode ==
    /\ task = 0
    /\ \E target \in StopTargets : start_task(target)
    /\ UNCHANGED <<form, elsewhere>>

NextStop ==
    \/ StartEncode
    \/ WorkerCall
    \/ WorkerPut
    \/ WorkerDrainTest
    \/ WorkerSpawn
    \/ WorkerRun
    \/ WorkerUse
    \/ WorkerWait
    \/ WorkerExitCode
    \/ WorkerClear
    \/ WorkerRaise
    \/ StopCall
    \/ StopPoll
    \/ StopKill
    \/ StopWait
    \/ StopFinally

StopSpec == Init /\ [][NextStop]_vars

\* Two encodes that overlap: a second POST starts its thread while the
\* thread of the first runs.  worker, task, pushed and calls are those of
\* the thread that runs next; other keeps those of the thread that waits.
OverlapTargets == {t \in StopTargets : ~t.args.go}

\* What the two encodes meet: the set-up of the encoder fails, or the
\* encoder runs and exits with 0 or with 1, printing nothing.
OverlapOutcomes(args) ==
    {o \in EncodeOutcomes(args) :
        /\ o.path \in {"setup_fail", "exit0", "exit1"}
        /\ ~o.tiles_warn /\ o.duration = 0 /\ o.lines = <<>>}

StartFirst ==
    /\ task = 0
    /\ \E target \in OverlapTargets : start_task(target)
    /\ UNCHANGED <<form, elsewhere>>

StartOverlap ==
    /\ task = 1
    /\ Running
    /\ other = NoWorker
    /\ other' = [worker |-> worker, task |-> task, pushed |-> pushed, calls |-> calls]
    /\ \E target \in OverlapTargets : start_task(target)
    /\ UNCHANGED <<form, gofile_history, unique>>

OverlapCall ==
    /\ Running /\ Next_op.op = "call"
    /\ \E o \in OverlapOutcomes(Next_op.args) : Enter(o)

\* The interpreter passes from one thread to the other.
Switch ==
    /\ other.worker.status = "running"
    /\ worker' = other.worker
    /\ task' = other.task
    /\ pushed' = other.pushed
    /\ calls' = other.calls
    /\ other' = [worker |-> worker, task |-> task, pushed |-> pushed, calls |-> calls]
    /\ UNCHANGED <<progress_queue, task_active, conn, current_process, procs, stop,
                   form, gofile_history, unique>>

NextOverlap ==
    \/ StartFirst
    \/ StartOverlap
    \/ Switch
    \/ OverlapCall
    \/ WorkerPut
    \/ WorkerDrainTest
    \/ WorkerDrainGet
    \/ WorkerSpawn
    \/ WorkerRun
    \/ WorkerUse
    \/ WorkerWait
    \/ WorkerExitCode
    \/ WorkerClear

OverlapSpec == Init /\ [][NextOverlap]_vars

\* The same, with the client logging out at any time.
NextSession ==
    \/ StartEncode
    \/ WorkerCall
    \/ WorkerPut
    \/ WorkerDrainTest
    \/ WorkerSpawn
    \/ WorkerRun
    \/ WorkerUse
    \/ WorkerWait
    \/ WorkerExitCode
    \/ WorkerClear
    \/ WorkerRaise
    \/ StopCall
    \/ StopPoll
    \/ StopKill
    \/ StopWait
    \/ StopFinally
    \/ logout

SessionSpec == Init /\ [][NextSession]_vars

\* The fields of the form posted to /encode/<filepath> that encode_file
\* depends on before it starts the encoder, and whether the file of the URL
\* exists.  bitrate 0 is a field that is absent or blank.
Forms ==
    [exists : BOOLEAN, output_filename : {"absent", "name"},
     pass_mode : {"1-pass", "2-pass"}, bitrate : {0, 50, 2000}]

\* What encode_file can do with the values of the form it was started with.
\* Without an output filename get_safe_filename raises before the try
\* statement; a 2-pass encode with a bitrate below 100 ends at the bitrate
\* test unless it ended before, and no other encode ends there.
Consistent(f, op, o) ==
    IF f = NoForm \/ op.fn # "encode_file" THEN TRUE
    ELSE IF f.output_filename = "absent" THEN o.path = "pre_exc"
    ELSE IF op.args.codec # "none" /\ f.pass_mode = "2-pass" /\ f.bitrate < 100
         THEN o.path \in {"pre_exc", "not_media", "missing_not_media", "bitrate_missing"}
    ELSE o.path # "bitrate_missing"

\* encode_file_post(filepath): "File not found." and a redirect when the
\* file is missing; otherwise the form's values go to start_task as they are.
encode_file_post(f, target) ==
    /\ form' = f
    /\ UNCHANGED elsewhere
    /\ IF f.exists THEN start_task(target)
       ELSE UNCHANGED <<progress_queue, task_active, task, worker, pushed, calls, conn,
                        current_process, procs, stop>>

PostEncode ==
    /\ form = NoForm
    /\ \E f \in Forms, target \in {t \in Targets : t.fn = "encode_file"} :
          encode_file_post(f, target)

RouteCall ==
    /\ Running /\ Next_op.op = "call"
    /\ \E o \in Outcomes(Next_op.fn, Next_op.args) :
          Consistent(form, Next_op, o) /\ Enter(o)

NextRoute ==
    \/ PostEncode
    \/ RouteCall
    \/ WorkerPut
    \/ WorkerDrainTest
    \/ WorkerSpawn
    \/ WorkerRun
    \/ WorkerUse
    \/ WorkerWait
    \/ WorkerExitCode
    \/ WorkerClear
    \/ WorkerRaise

RouteSpec == Init /\ [][NextRoute]_vars

\* A batch over MaxFiles eligible files: batch_encode with the codec and the
\* upload_pixeldrain flag of the request, or batch_upload_pixeldrain.
BatchTargets ==
    {[fn |-> "batch_encode_worker", args |-> Args(p, FALSE, FALSE, c)] :
        p \in BOOLEAN, c \in {"none", "h265"}}
    \cup {[fn |-> "batch_upload_worker", args |-> NoArgs]}

StartBatch ==
    /\ task = 0
    /\ \E target \in BatchTargets : start_task(target)
    /\ UNCHANGED <<form, elsewhere>>

NextBatch ==
    \/ StartBatch
    \/ WorkerCall
    \/ WorkerPut
    \/ WorkerDrainTest
    \/ WorkerDrainGet
    \/ WorkerSpawn
    \/ WorkerRun
    \/ WorkerUse
    \/ WorkerWait
    \/ WorkerExitCode
    \/ WorkerClear
    \/ WorkerRaise

BatchSpec == Init /\ [][NextBatch]_vars

\* merge_files_route(): with two valid files the merge thread is started,
\* not through start_task.
merge_files_route ==
    /\ task = 0
    /\ task' = task + 1
    /\ worker' = [status |-> "running",
                  plan |-> <<Call("ffmpeg_merge_with_progress", NoArgs)>>,
                  getting |-> FALSE]
    /\ pushed' = <<>>
    /\ calls' = <<>>
    /\ UNCHANGED <<progress_queue, task_active, conn, current_process, procs, stop,
                   form, elsewhere>>

\* The merge thread and the connection of the page that started it.
NextMerge ==
    \/ merge_files_route
    \/ WorkerCall
    \/ WorkerPut
    \/ WorkerSpawn
    \/ WorkerRun
    \/ WorkerWait
    \/ WorkerRaise
    \/ Connect
    \/ StreamGet
    \/ StreamTimeout
    \/ StreamDisconnect

MergeSpec == Init /\ [][NextMerge]_vars

\* Sequential calls of save_to_gofile_history, starting without a history
\* file, with an empty file, or with a file holding the empty list.
InitHistory ==
    /\ gofile_history \in {[NoHistory EXCEPT !.state = st] : st \in {"absent", "empty", "json"}}
    /\ unique = NoUnique
    /\ other = NoWorker
    /\ InitTask

HistorySpec == InitHistory /\ [][Save]_vars

(* --------------------------- get_unique_filepath ------------------------ *)
\* Paths are sequences of characters.
MaxExisting == 4   \* files in the folders before a call

Digit == <<"0", "1", "2", "3", "4", "5", "6", "7", "8", "9">>

\* f"{counter}"
RECURSIVE str(_)
str(n) == IF n < 10 THEN <<Digit[n + 1]>>
          ELSE str(n \div 10) \o <<Digit[(n % 10) + 1]>>

\* The last index of character c in s, 0 when there is none.
rfind(s, c) ==
    LET at == {i \in 1..Len(s) : s[i] = c}
    IN  IF at = {} THEN 0 ELSE CHOOSE i \in at : \A j \in at : j <= i

\* head.rstrip("/")
RECURSIVE rstrip(_)
rstrip(s) == IF s # <<>> /\ s[Len(s)] = "/" THEN rstrip(SubSeq(s, 1, Len(s) - 1)) ELSE s

\* os.path.split: the path up to its last slash, without trailing slashes
\* unless it is made of slashes only, and what follows the last slash.
os_path_split(p) ==
    LET i == rfind(p, "/")
        head == SubSeq(p, 1, i)
    IN  [head |-> IF rstrip(head) = <<>> THEN head ELSE rstrip(head),
         tail |-> SubSeq(p, i + 1, Len(p))]

\* os.path.splitext: the extension starts at the last dot of the name, and
\* dots that lead the name start no extension.
os_path_splitext(p) ==
    LET dot == rfind(p, ".")
        first == rfind(p, "/") + 1
    IN  IF dot >= first /\ \E i \in first..(dot - 1) : p[i] # "."
        THEN [root |-> SubSeq(p, 1, dot - 1), ext |-> SubSeq(p, dot, Len(p))]
        ELSE [root |-> p, ext |-> <<>>]

\* os.path.join of a directory and a relative name
os_path_join(a, b) ==
    IF a = <<>> \/ a[Len(a)] = "/" THEN a \o b ELSE a \o <<"/">> \o b

\* os.path.exists
os_path_exists(path, existing) == path \in existing

\* counter += 1
IncrementTwice(counter) == counter + 2

Increment(counter) == counter + 1

\* The loop of get_unique_filepath, from a value of counter on.
RECURSIVE UniqueFrom(_, _, _, _, _)
UniqueFrom(directory, base, ext, counter, existing) ==
    LET new_filepath == os_path_join(directory, base \o <<"_">> \o str(counter) \o ext)
    IN  IF os_path_exists(new_filepath, existing)
        THEN UniqueFrom(directory, base, ext, Increment(counter), existing)
        ELSE new_filepath

get_unique_filepath(target_path, existing) ==
    IF ~os_path_exists(target_path, existing) THEN target_path
    ELSE LET parts == os_path_split(target_path)
             name == os_path_splitext(parts.tail)
         IN  UniqueFrom(parts.head, name.root, name.ext, 1, existing)

\* The targets of the calls: a name in a folder, given by the folder, the
\* name up to its extension, and the extension.
UniqueTargets ==
    {[directory |-> <<"d">>, base |-> <<"a">>, ext |-> <<".", "m">>],
     [directory |-> <<"d">>, base |-> <<"a", "_", "1">>, ext |-> <<".", "m">>],
     [directory |-> <<"d">>, base |-> <<"a">>, ext |-> <<>>],
     [directory |-> <<"d">>, base |-> <<"a", ".", "b">>, ext |-> <<".", "m">>],
     [directory |-> <<"d">>, base |-> <<".", "a">>, ext |-> <<>>],
     [directory |-> <<"d", ".", "e">>, base |-> <<"a">>, ext |-> <<>>]}

\* os.path.join(folder, name) of the callers
TargetPath(t) == os_path_join(t.directory, t.base \o t.ext)

\* A caller asks for a free path.
UniqueCall ==
    /\ unique.result = <<>>
    /\ Cardinality(unique.existing) < MaxExisting
    /\ \E t \in UniqueTargets :
          unique' = [unique EXCEPT
                        !.target = t,
                        !.result = get_unique_filepath(TargetPath(t), unique.existing)]
    /\ UNCHANGED <<progress_queue, task_active, task, worker, pushed, calls, conn,
                   current_process, procs, stop, form, gofile_history, other>>

\* The caller writes its file at the path it was given.
UniqueWrite ==
    /\ unique.result # <<>>
    /\ unique' = [unique EXCEPT !.existing = @ \cup {unique.result}, !.result = <<>>]
    /\ UNCHANGED <<progress_queue, task_active, task, worker, pushed, calls, conn,
                   current_process, procs, stop, form, gofile_history, other>>

\* A file is deleted between two calls.
UniqueRemove ==
    /\ unique.result = <<>>
    /\ \E p \in unique.existing : unique' = [unique EXCEPT !.existing = @ \ {p}]
    /\ UNCHANGED <<progress_queue, task_active, task, worker, pushed, calls, conn,
                   current_process, procs, stop, form, gofile_history, other>>

NextUnique == UniqueCall \/ UniqueWrite \/ UniqueRemove

\* Sequential calls of get_unique_filepath, from empty folders.
UniqueSpec == Init /\ [][NextUnique]_vars

\* An encode of a file of known duration whose encoder reports every second
\* of it: the lines time=00:00:01.00 ... time=00:00:<duration>.00, exit code 0.
MaxDuration == 10   \* longest duration, in seconds

TimeLines(duration) == [k \in 1..duration |-> Line("time", k)]

RunOutcome(duration) ==
    [path |-> "exit0", tiles_warn |-> FALSE, duration |-> duration,
     lines |-> TimeLines(duration)]

RunTargets ==
    {[fn |-> "encode_file",
      args |-> [pix |-> FALSE, s4 |-> FALSE, go |-> FALSE, codec |-> "h265",
                duration |-> d]] : d \in 1..MaxDuration}

StartRun ==
    /\ task = 0
    /\ \E target \in RunTargets : start_task(target)
    /\ UNCHANGED <<form, elsewhere>>

RunCall ==
    /\ Running /\ Next_op.op = "call"
    /\ Enter(RunOutcome(Next_op.args.duration))

NextRun ==
    \/ StartRun
    \/ RunCall
    \/ WorkerPut
    \/ WorkerDrainTest
    \/ WorkerSpawn
    \/ WorkerRun
    \/ WorkerUse
    \/ WorkerWait
    \/ WorkerExitCode
    \/ WorkerClear

EncodeRunSpec == Init /\ [][NextRun]_vars

(* ------------------------------- claims -------------------------------- *)
\* A terminal event: log == "DONE", or an "error" key.
TerminalEvent(e) == e.log = "DONE" \/ e.error

Positions(events) == 1..Len(events)
DonePositions(events) == {i \in Positions(events) : events[i].log = "DONE"}
ErrorPositions(events) == {i \in Positions(events) : events[i].error}
TerminalPositions(events) == {i \in Positions(events) : TerminalEvent(events[i])}

Returned == worker.status = "returned"

UploadFunctions == {"upload_to_pixeldrain", "upload_to_pixeldrain_alt", "upload_to_4stream",
                    "upload_to_4stream_alt", "upload_to_gofile"}
UploadCalls == {i \in 1..Len(calls) : calls[i].fn \in UploadFunctions}

\* C1: when a worker has returned, the events it pushed contain exactly one
\* terminal event (one DONE or one error, not both, not two of a kind).
C1_ExactlyOneTerminal ==
    Returned => Cardinality(TerminalPositions(pushed)) = 1

\* C2: when a worker has returned, it has pushed at least one terminal event.
C2_SomeTerminal ==
    Returned => TerminalPositions(pushed) # {}

\* C3: when the encoder of an encode_file task exited with a non-zero code,
\* the worker has pushed exactly one error event and no DONE, whatever the
\* upload flags.
C3_EncoderFailure ==
    (Returned /\ calls[1].fn = "encode_file" /\ calls[1].path = "exit1")
        => /\ Cardinality(ErrorPositions(pushed)) = 1
           /\ DonePositions(pushed) = {}

\* C4: when the primary operation of a chained worker succeeded and its two
\* uploads both succeeded, the worker has pushed exactly one DONE, and it
\* follows the completion stages of both uploads.
C4_OneDoneAfterUploads ==
    (/\ Returned
     /\ Cardinality(UploadCalls) = 2
     /\ \A i \in UploadCalls : calls[i].path \in {"ok", "ok_link"}
     /\ ErrorPositions(pushed) = {})
        => /\ Cardinality(DonePositions(pushed)) = 1
           /\ \A d \in DonePositions(pushed) :
                 \A i \in Positions(pushed) :
                    pushed[i].stage \in CompleteStages => i < d

\* C5: in a download_and_convert task, the encode_file stage pushes no
\* terminal event: the terminal event is left to the last stage.
C5_EncodeStageSilent ==
    (calls # <<>> /\ calls[1].fn = "download_and_convert")
        => \A i \in Positions(pushed) :
              pushed[i].fn = "encode_file" => ~TerminalEvent(pushed[i])

\* C6: the connection opened for a task never delivers an event that an
\* earlier task pushed.
C6_NoStaleEvent ==
    \A i \in Positions(conn.delivered) : conn.delivered[i].task >= conn.task

\* C7: a worker pushes nothing after its first terminal event.
C7_TerminalIsLast ==
    \A i \in Positions(pushed) : TerminalEvent(pushed[i]) => i = Len(pushed)

\* C8: with one task and one connection, once the worker has returned and
\* the connection has closed on a terminal event, every event the worker
\* pushed was delivered to the connection exactly once and none is left in
\* the queue.
C8_ConsumedExactlyOnce ==
    (/\ Returned
     /\ conn.state = "closed"
     /\ conn.delivered # <<>>
     /\ TerminalEvent(conn.delivered[Len(conn.delivered)]))
        => conn.delivered = pushed /\ progress_queue = <<>>

\* C9: a connection receives the events of a worker in the order in which
\* the worker pushed them.
C9_PushOrder ==
    \A i, j \in Positions(conn.delivered) :
        (i < j /\ conn.delivered[i].task = conn.delivered[j].task)
            => conn.delivered[i].seq < conn.delivered[j].seq

\* Two events of the worker have been delivered to the connection.
C9_Witness ==
    /\ Len(conn.delivered) >= 2
    /\ conn.delivered[1].task = conn.delivered[2].task

\* C10: a connection forwards nothing after a terminal event, is closed as
\* soon as it has forwarded one, and every open connection is eventually
\* closed (by a terminal event, or by 30 seconds without an event).
C10_StreamCloses ==
    /\ [](\A i \in Positions(conn.delivered) :
            TerminalEvent(conn.delivered[i])
                => i = Len(conn.delivered) /\ conn.state = "closed")
    /\ ((conn.state = "open") ~> (conn.state = "closed"))

\* A connection has forwarded events and was closed by an error event.
C10_Witness ==
    /\ conn.state = "closed"
    /\ Len(conn.delivered) >= 2
    /\ conn.delivered[Len(conn.delivered)].error

\* C11: every percent value that a connection has forwarded lies in [0, 100]
\* (an event without a percent key has none).
C11_PercentInRange ==
    \A i \in Positions(conn.delivered) :
        conn.delivered[i].percent # -1
            => conn.delivered[i].percent >= 0 /\ conn.delivered[i].percent <= 100

IsEncodingStage(e) == e.stage = "Encoding"

\* The percent events of the encoder's lines: the "Encoding" stages after
\* the one that announces the encode.
TimeEvents == Tail(SelectSeq(pushed, IsEncodingStage))

\* C12: in an encode of a file of duration d whose encoder prints time=1 s
\* ... time=d s and exits with 0, the k-th line yields the percent
\* min(100, k / d * 100); once the worker has returned there are d of them,
\* the last is 100, and the sequence ends with its only DONE, after every
\* percent event.
C12_TimePercent ==
    calls # <<>> =>
        LET d == calls[1].args.duration IN
        /\ \A k \in 1..(Len(SelectSeq(pushed, IsEncodingStage)) - 1) :
              TimeEvents[k].percent = (IF k * 100 < 100 * d THEN (k * 100) \div d ELSE 100)
        /\ Returned =>
              /\ Len(TimeEvents) = d
              /\ TimeEvents[d].percent = 100
              /\ DonePositions(pushed) = {Len(pushed)}
              /\ ErrorPositions(pushed) = {}

\* The encode of a 10-second file has returned after ten time lines.
C12_Witness ==
    /\ Returned
    /\ calls # <<>> /\ calls[1].args.duration = 10
    /\ Len(SelectSeq(pushed, IsEncodingStage)) = 11

\* C13: a stop request that finds no process registered is answered 400 at
\* once and changes neither current_process nor the queue nor task_active.
C13_NothingToStop ==
    [][ (stop.pc = "idle" /\ stop' # stop /\ current_process = None)
          => /\ stop' = [stop EXCEPT !.answers =
                            Append(@, [code |-> 400, token |-> None, live |-> FALSE,
                                       token_after |-> None, state_after |-> "none"])]
             /\ UNCHANGED <<current_process, progress_queue, task_active, procs>> ]_vars

\* A stop request was refused while a task was running.
C13_Witness ==
    /\ worker.status = "running"
    /\ \E i \in 1..Len(stop.answers) :
          stop.answers[i].code = 400 /\ stop.answers[i].token = None

\* C14: a stop request that arrives while current_process references a
\* running process is answered 200, leaves that process ended and
\* current_process None, and the next stop request is answered 400.
C14_StopKills ==
    \A i \in 1..Len(stop.answers) :
        stop.answers[i].live
            => /\ stop.answers[i].code = 200
               /\ stop.answers[i].state_after # "running"
               /\ stop.answers[i].token_after = None
               /\ i < Len(stop.answers) => stop.answers[i + 1].code = 400

\* The encoder was killed by a stop request.
EncoderKilled ==
    \E h \in 1..Len(procs) : procs[h].kind = "ffmpeg" /\ procs[h].state = "killed"

\* C15: when a stop request has killed the encoder of encode_file, the
\* worker returns having pushed exactly one terminal event, an error.
C15_KilledEncodeFails ==
    (Returned /\ EncoderKilled)
        => /\ Cardinality(TerminalPositions(pushed)) = 1
           /\ Cardinality(ErrorPositions(pushed)) = 1

\* C16: after encode_file has returned or raised, current_process is None.
C16_TokenCleared ==
    (calls # <<>> /\ calls[1].fn = "encode_file" /\ worker.status \in {"returned", "raised"})
        => current_process = None

\* encode_file has returned after its encoder exited with 0.
C16_Witness ==
    /\ Returned
    /\ calls # <<>> /\ calls[1].fn = "encode_file" /\ calls[1].path = "exit0"
    /\ \E h \in 1..Len(procs) : procs[h].kind = "ffmpeg" /\ procs[h].state = "exited"
    /\ current_process = None

\* C17: while a process that a worker spawned (encoder, downloader) is
\* running, current_process holds its handle.
C17_RunningIsRegistered ==
    \A h \in 1..Len(procs) :
        (procs[h].state = "running" /\ procs[h].kind \in {"ffmpeg", "yt-dlp"})
            => current_process = h

\* C18: no exception leaves a worker thread.
C18_NoEscape == worker.status # "raised"

\* The calls of encode_file in the current task whose input file is missing.
MissingCalls ==
    {i \in 1..Len(calls) : calls[i].fn = "encode_file" /\ calls[i].path \in MissingPaths}

\* C20: when encode_file's input file does not exist, the worker pushes an
\* error and returns without encode_file having started any process.
C20_MissingInput ==
    (Returned /\ MissingCalls # {})
        => /\ \E i \in 1..Len(pushed) :
                 pushed[i].error /\ pushed[i].task = task /\ pushed[i].fn = "encode_file"
           /\ \A h \in 1..Len(procs) :
                 ~(procs[h].task = task /\ procs[h].fn = "encode_file")

\* A form without an output filename, or asking for 2-pass without a
\* bitrate of at least 100.
Invalid(f) ==
    f.output_filename = "absent" \/ (f.pass_mode = "2-pass" /\ f.bitrate < 100)

\* C19: a request whose form is invalid starts no worker thread, and no
\* error event for it is pushed to the queue.
C19_InvalidFormNoWorker ==
    (form # NoForm /\ Invalid(form))
        => /\ task = 0
           /\ \A i \in 1..Len(pushed) : ~pushed[i].error

\* C21: after sequential calls of save_to_gofile_history on a history file
\* that was absent or empty, the file holds at most 100 entries, newest
\* first, no two with the same link; and a call whose link was present
\* left the file as it was.
C21_HistoryBounded ==
    LET e == gofile_history.entries
    IN  /\ Len(e) <= HistoryCap
        /\ \A i, j \in 1..Len(e) :
               i < j => (e[i].createTime >= e[j].createTime /\ e[i].link # e[j].link)
        /\ gofile_history.last.present => ~gofile_history.last.changed

\* The file is full, an entry has been cut off, and the last call came with
\* a link that the file holds.
C21_Witness ==
    /\ Len(gofile_history.entries) = HistoryCap
    /\ gofile_history.dropped # 0
    /\ gofile_history.last.present

\* ffmpeg_merge_with_progress has returned.
MergeReturned ==
    Returned /\ calls # <<>> /\ calls[1].fn = "ffmpeg_merge_with_progress"

\* C27: when the merge has produced no output file, the merge worker has
\* pushed an error and no DONE; it has pushed DONE only with an output file.
C27_MergeFailureIsError ==
    MergeReturned
        => /\ calls[1].path \notin MergeProduced
                => (ErrorPositions(pushed) # {} /\ DonePositions(pushed) = {})
           /\ DonePositions(pushed) # {} => calls[1].path \in MergeProduced

\* C25: the drain of a worker removes only events that were pushed before
\* the current task started, never an event of the current task.
C25_DrainOnlyStale ==
    [][ (worker.getting /\ ~worker'.getting /\ progress_queue # <<>>)
          => Head(progress_queue).task < task ]_vars

\* The task is a batch.
IsBatch == calls # <<>> /\ calls[1].fn \in {"batch_encode_worker", "batch_upload_worker"}

\* The files of the batch whose processing has begun.
FilesStarted ==
    Cardinality({i \in 1..Len(calls) : calls[i].fn = PerFile(calls[1].fn)})

\* C26: a batch worker pushes no DONE before its last file, and when it has
\* returned it has pushed exactly one DONE.
C26_BatchOneDone ==
    IsBatch
        => /\ FilesStarted < MaxFiles => DonePositions(pushed) = {}
           /\ Returned => Cardinality(DonePositions(pushed)) = 1

\* C22: a worker that has entered q.get() in its drain loop gets out of it.
C22_DrainTerminates == worker.getting ~> ~worker.getting

\* C23: every stop request is answered with 200 or with 400.
C23_StopNeverCrashes ==
    \A i \in 1..Len(stop.answers) : stop.answers[i].code \in {200, 400}

\* The request of a download_file_directly task, once it has been made.
DirectRequests ==
    {i \in 1..Len(calls) : calls[i].fn = "download_file_directly:request"}

\* Positions of the "Download complete" stage of download_file_directly.
DirectCompletePositions ==
    {i \in Positions(pushed) : /\ pushed[i].fn = "download_file_directly"
                               /\ pushed[i].stage = "Download complete"}

\* C28: download_file_directly pushes "Download complete" only when the
\* body of the response was written to a file, and when the final response
\* has an error status it pushes an error and no completion event.
C28_CompleteOnlyAfterWrite ==
    \A i \in DirectRequests :
        /\ DirectCompletePositions # {} => calls[i].path = "ok"
        /\ (Returned /\ calls[i].path = "http_error")
              => (ErrorPositions(pushed) # {} /\ DirectCompletePositions = {})

\* base_k.ext in the folder of target t
Numbered(t, k) ==
    os_path_join(t.directory, t.base \o <<"_">> \o str(k) \o t.ext)

\* C30: get_unique_filepath returns the target when it does not exist, and
\* otherwise base_k.ext for the smallest k >= 1 for which that path does not
\* exist; the path it returns does not exist at the time of the call.
C30_UniquePath ==
    unique.result # <<>> =>
        LET t == unique.target
            existing == unique.existing
        IN  /\ TargetPath(t) \notin existing => unique.result = TargetPath(t)
            /\ TargetPath(t) \in existing =>
                  \E k \in 1..(Cardinality(existing) + 1) :
                     /\ unique.result = Numbered(t, k)
                     /\ \A j \in 1..(k - 1) : Numbered(t, j) \in existing
            /\ unique.result \notin existing

\* A call found the target and base_1.ext taken.
C30_Witness ==
    /\ unique.result # <<>>
    /\ TargetPath(unique.target) \in unique.existing
    /\ Numbered(unique.target, 1) \in unique.existing
    /\ unique.result = Numbered(unique.target, 2)

\* The stop requests that were answered with 200.
Stopped == {i \in 1..Len(stop.answers) : stop.answers[i].code = 200}

\* C29: start_task sets session['task_active'], and the only steps that
\* remove it are the end of a stop request that found a running process
\* and a logout; no step of a worker changes it, so it is still set after
\* a task that ended with neither.
C29_FlagRemovedByStopOrLogout ==
    [][ /\ task' # task => task_active'
        /\ (task_active /\ ~task_active') => (StopFinally \/ logout) ]_vars

\* A task has ended, a stop request was refused, and the flag is still set.
C29_Witness ==
    /\ Returned
    /\ stop.answers # <<>>
    /\ Stopped = {}
    /\ task_active

\* C29 as stated: once a task was started the flag is set until a stop
\* request that found a running process is answered, and nothing else
\* removes it.
C29_FlagUntilStopped ==
    /\ []((task > 0 /\ Stopped = {}) => task_active)
    /\ [][ (task_active /\ ~task_active')
              => /\ stop.pc = "finally"
                 /\ stop'.answers[Len(stop'.answers)].code = 200 ]_vars

\* The encoders that run.
EncodersAlive ==
    {h \in DOMAIN procs : procs[h].kind = "ffmpeg" /\ procs[h].state = "running"}

\* C24: with two encode_file tasks that overlap, current_process is not
\* None while an encoder runs, and no worker fails on a handle that the
\* other one cleared.
C24_HandleKeptWhileEncoding ==
    other # NoWorker
        => /\ EncodersAlive # {} => current_process # None
           /\ \A i \in 1..Len(calls) :
                 calls[i].path = "exit0" => ErrorPositions(pushed) = {}

====
